---- MODULE Spec2Model ----
(***************************************************************************)
(* Model of functions/validate.js: the offer validator.  One request is    *)
(* followed from the HTTP handler through the offer fetch, the paginated   *)
(* reaction scan, the time-window decision and the signature.  Every       *)
(* `await` of the source is a step; the ledger, the Neynar index and the   *)
(* clock are the environment and answer nondeterministically.  In the      *)
(* scan the awaited page fetch and the code that reads the page it         *)
(* returned are two steps, so that every fetch is a step of the model.     *)
(*                                                                         *)
(* The signing key is taken to be a valid key (process.env.PRIVATE_KEY),   *)
(* so generateSignature itself does not throw.                             *)
(***************************************************************************)
EXTENDS Integers, Sequences, FiniteSets, TLC

VARIABLES
    pc,                   \* position of the request in handler/validate
    query,                \* event.queryStringParameters.offerId
    offerId,              \* Number(offerId), the argument of validate
    raw,                  \* the tuple returned by contract.offers
    receiverFid,          \* receiver.user.fid
    offer,                \* the value returned by fetchOfferById
    cursor,               \* the cursor of the running scan
    reaction,             \* the value returned by the reaction handler
    reactionCreateTimeMs, \* the value returned by findReactionCreateTimeMs
    message,              \* the argument of generateSignature
    response,             \* the value returned by handler
    calls,                \* history: outbound calls made for the request
    failed,               \* history: which phase threw, if any
    indexResponse,        \* the page the awaited fetch returned to the scan
    qualifying,           \* history: matching events on the fetched pages
    clockAt,              \* history: the clock at the two checks
    nowReads,             \* history: the values Date.now() returned
    signLog               \* history: the messages encoded, hashed, signed

vars == <<pc, query, offerId, raw, receiverFid, offer, cursor, reaction,
          reactionCreateTimeMs, message, response, calls, failed,
          indexResponse, qualifying, clockAt, nowReads, signLog>>

----------------------------------------------------------------------------
(* Bounds of the model *)

MaxLen == 1            \* longest offerId query string
MaxAcceptSec == 1      \* largest acceptTimestamp on the ledger, seconds
MaxDurationSec == 1    \* largest duration on the ledger, seconds
MaxCursor == 2         \* cursor names of the model
MaxItems == 2          \* most items on one page of the index

----------------------------------------------------------------------------
(* JavaScript values *)

Undefined == [kind |-> "undefined", val |-> 0]
Null == [kind |-> "null", val |-> 0]
NaN == [kind |-> "NaN", val |-> 0]
Num(n) == [kind |-> "number", val |-> n]
\* a cursor string; Str(0) is the empty string
Str(k) == [kind |-> "string", val |-> k]
\* an ISO-8601 timestamp string: day `d` after the epoch, `m` ms into the day
DateStr(d, m) == [kind |-> "date", day |-> d, ms |-> m]

\* JavaScript truthiness (ToBoolean)
Truthy(x) ==
    /\ x.kind \notin {"undefined", "null", "NaN"}
    /\ ~(x.kind \in {"number", "string"} /\ x.val = 0)

\* a || b
OrElse(a, b) == IF Truthy(a) THEN a ELSE b

\* a > n for a number n (ToNumber(null) is 0, NaN compares false)
JsGt(a, n) ==
    CASE a.kind = "number" -> a.val > n
      [] a.kind = "null" -> 0 > n
      [] OTHER -> FALSE

DAY_IN_MS == 24 * 60 * 60 * 1000

REACTION_HANDLERS == <<"findRecast", "findQuote", "findLike">>

----------------------------------------------------------------------------
(* Number(offerId) on the query strings of the model *)

Chars == {"0", "1", "-", "a"}

Digit(c) == CASE c = "0" -> 0 [] c = "1" -> 1 [] OTHER -> -1

IsDigits(s) == s # <<>> /\ \A i \in 1..Len(s) : Digit(s[i]) >= 0

RECURSIVE DigitsValue(_)
DigitsValue(s) ==
    IF s = <<>> THEN 0
    ELSE 10 * DigitsValue(SubSeq(s, 1, Len(s) - 1)) + Digit(s[Len(s)])

JsNumber(s) ==
    IF s = <<>> THEN Num(0)
    ELSE IF IsDigits(s) THEN Num(DigitsValue(s))
    ELSE IF s[1] = "-" /\ IsDigits(Tail(s)) THEN Num(0 - DigitsValue(Tail(s)))
    ELSE NaN

Strings == UNION {[1..n -> Chars] : n \in 0..MaxLen}

\* the offerId query parameter: absent, or a string
NoParam == [present |-> FALSE, chars |-> <<>>]
Param(s) == [present |-> TRUE, chars |-> s]
Queries == {NoParam} \cup {Param(s) : s \in Strings}

\* !offerId
QueryFalsy(q) == ~q.present \/ q.chars = <<>>

Response(status, json) == [statusCode |-> status, body |-> json]
NoResponse == Response(0, [error |-> ""])

----------------------------------------------------------------------------
(* The ledger and the identity resolver *)

OfferStates == 0..2
OfferTypes == 0..3
\* the users and the casts known to Neynar
Fids == {1, 2}
Hashes == {1, 2}
\* the receiver and the cast the offers of the model name
ReceiverFids == {1}
CastHashes == {1}

\* the fields of contract.offers(offerId) that fetchOfferById uses
RawOffers ==
    [acceptTimestamp : 0..MaxAcceptSec, duration : 0..MaxDurationSec,
     type : OfferTypes, state : OfferStates]

NoRaw == [acceptTimestamp |-> 0, duration |-> 0, type |-> 0, state |-> 0]

\* contract.offers encodes its argument as uint256 and throws on anything else
IsUint256(x) == x.kind = "number" /\ x.val >= 0

\* the object fetchOfferById returns
OfferObject(id, r, fid, hash) ==
    [kind |-> "object", id |-> id, state |-> r.state, type |-> r.type,
     receiverFid |-> fid, castHash |-> hash,
     durationMs |-> r.duration * 1000,
     acceptTimeMs |-> r.acceptTimestamp * 1000]

\* validate, from the fetched offer to the state test
StateCheckLenient(o) ==
    IF o.kind = "undefined" THEN "notAccepted"
    ELSE IF o.state # 1 THEN "notAccepted" ELSE "lookup"

StateCheckCreatedOnly(o) ==
    IF o.kind = "undefined" THEN "throw"
    ELSE IF o.state = 0 THEN "notAccepted" ELSE "lookup"

StateCheck(o) ==
    IF o.kind = "undefined" THEN "throw"
    ELSE IF o.state # 1 THEN "notAccepted" ELSE "lookup"

----------------------------------------------------------------------------
(* The engagement index *)

Dates == {DateStr(0, 0), DateStr(0, 500), DateStr(1, 1000), DateStr(1, 1001)}
TimestampFields == {Undefined} \cup Dates

\* an item of response.reactions
ReactionItems ==
    {[kind |-> "object", fid |-> f, reaction_timestamp |-> t,
      timestamp |-> Undefined] : f \in Fids, t \in TimestampFields}

Embed(h) == [castId |-> [kind |-> "object", hash |-> h]]
EmbedNoCast == [castId |-> Undefined]
EmbedLists == {<<>>} \cup {<<EmbedNoCast, Embed(h)>> : h \in Hashes}

\* an item of response.result.casts
CastItems ==
    {[kind |-> "object", embeds |-> e, reaction_timestamp |-> Undefined,
      timestamp |-> t] : e \in EmbedLists, t \in TimestampFields}

PagesOf(Items) == UNION {[1..n -> Items] : n \in 0..MaxItems}

\* next.cursor: null, the empty string or a cursor.  A scan tests its cursor
\* for truthiness and hands it back to the index, nothing else, and the index
\* answers every fetch freely: a chain of cursors over these names stands for
\* any chain of cursors, repeating or not.
Cursors == {Null} \cup {Str(k) : k \in 0..MaxCursor}

\* recast => recast.user.fid === receiverFid
RecastMatch(recast, fid) == recast.fid = fid

\* like => like.user.fid === receiverFid
LikeMatch(like, fid) == like.fid = fid

\* cast => cast.embeds.some(embed => embed.castId && embed.castId.hash === castHash)
QuoteMatch(cast, castHash) ==
    \E i \in 1..Len(cast.embeds) :
        /\ Truthy(cast.embeds[i].castId)
        /\ cast.embeds[i].castId.hash = castHash

\* the callback the reaction handler `h` passes to Array.prototype.find
Matches(h, item, o) ==
    CASE h = "findRecast" -> RecastMatch(item, o.receiverFid)
      [] h = "findQuote" -> QuoteMatch(item, o.castHash)
      [] h = "findLike" -> LikeMatch(item, o.receiverFid)

\* the positions of the page that satisfy the callback
Hits(h, page, o) == {i \in 1..Len(page) : Matches(h, page[i], o)}

\* Array.prototype.find: the first element that satisfies the callback, or undefined
Find(h, page, o) ==
    IF Hits(h, page, o) = {} THEN Undefined
    ELSE page[CHOOSE i \in Hits(h, page, o) : \A j \in Hits(h, page, o) : i <= j]

\* the items the endpoint called by the reaction handler `h` returns
ItemsOf(h) == IF h = "findQuote" THEN CastItems ELSE ReactionItems

\* new Date(s).valueOf()
DateValueOf(s) ==
    IF s.kind = "date" THEN Num(s.day * DAY_IN_MS + s.ms) ELSE NaN

\* reaction ? new Date(reaction.reaction_timestamp || reaction.timestamp).valueOf() : null
CreateTimeMs(r) ==
    IF Truthy(r) THEN DateValueOf(OrElse(r.reaction_timestamp, r.timestamp))
    ELSE Null

\* what a fetched page is to the handler `h` scanning for `o`: the element
\* find returns, and the creation times of all the elements that qualify
PageOutcome(h, page, o) ==
    [found |-> Find(h, page, o),
     matches |-> {CreateTimeMs(page[i]) : i \in Hits(h, page, o)}]

\* the receiver and the cast a scan may be looking for
Targets == [receiverFid : ReceiverFids, castHash : CastHashes]

\* every page the index may return, by handler and target, as its outcome
PageOutcomes ==
    UNION {{<<h, t, PageOutcome(h, page, t)>> :
                t \in Targets, page \in PagesOf(ItemsOf(h))} :
           h \in {"findRecast", "findQuote", "findLike"}}

\* the outcomes of the pages the index may return to `h` scanning for `o`
OutcomesFor(h, o) ==
    {x[3] : x \in {y \in PageOutcomes :
                      /\ y[1] = h
                      /\ y[2] = [receiverFid |-> o.receiverFid,
                                 castHash |-> o.castHash]}}

\* the response of a page fetch, as the scan reads it: the element find
\* returns, the qualifying creation times, and response.next.cursor
IndexResponse(outcome, next) ==
    [arrived |-> TRUE, found |-> outcome.found, matches |-> outcome.matches,
     next |-> next]

NoIndexResponse ==
    [arrived |-> FALSE, found |-> Undefined, matches |-> {}, next |-> Null]

\* if (!cursor) break;
ScanContinuesAlways(next) == TRUE

ScanContinues(next) == Truthy(next)

----------------------------------------------------------------------------
(* The decision of validate *)

ClockValues ==
    {500, 1500, DAY_IN_MS + 1000, DAY_IN_MS + 1001}

\* the cancellation test reaches Date.now() only when !reactionCreateTimeMs
CancelReadsClock(r) == ~Truthy(r)

CancelCondition(r, o, now) ==
    \/ ~Truthy(r) /\ now > o.acceptTimeMs + DAY_IN_MS
    \/ JsGt(r, o.acceptTimeMs + DAY_IN_MS)

\* the completion test reaches Date.now() only when reactionCreateTimeMs
CompleteReadsClock(r) == Truthy(r)

CompleteConditionAtEqual(r, o, now) ==
    Truthy(r) /\ now >= r.val + o.durationMs

CompleteCondition(r, o, now) ==
    Truthy(r) /\ now > r.val + o.durationMs

\* validate, lines 49-60, with the clock at n1 in the first test and n2 in the second
Verdict(r, o, n1, n2) ==
    IF CancelCondition(r, o, n1) THEN "cancel"
    ELSE IF CompleteCondition(r, o, n2) THEN "complete"
    ELSE "pending"

\* the values Date.now() returned to validate
ClockReads(r, o, n1, n2) ==
    (IF CancelReadsClock(r) THEN <<n1>> ELSE <<>>)
    \o (IF ~CancelCondition(r, o, n1) /\ CompleteReadsClock(r) THEN <<n2>> ELSE <<>>)

----------------------------------------------------------------------------
(* generateSignature *)

\* AbiCoder.encode(["uint256", "bool"], [offerId, result]): two 32-byte words
AbiEncode(m) == <<m.offerId.val, IF m.result THEN 1 ELSE 0>>

\* keccak256, taken as collision free
Keccak256(bytes) == <<"keccak256", bytes>>

DataHash(m) == Keccak256(AbiEncode(m))

\* wallet.signingKey.sign(hash) with the configured key
SignatureOf(hash) ==
    [v |-> <<"v", hash>>, r |-> <<"r", hash>>, s |-> <<"s", hash>>]

SignedResultAlwaysTrue(m) ==
    [offer_id |-> m.offerId, result |-> TRUE,
     v |-> SignatureOf(DataHash(m)).v,
     r |-> SignatureOf(DataHash(m)).r,
     s |-> SignatureOf(DataHash(m)).s]

\* the object generateSignature returns
SignedResult(m) ==
    [offer_id |-> m.offerId, result |-> m.result,
     v |-> SignatureOf(DataHash(m)).v,
     r |-> SignatureOf(DataHash(m)).r,
     s |-> SignatureOf(DataHash(m)).s]

\* { offerId: offerId, result: false }
UnsignedResult(id) == [offerId |-> id, result |-> FALSE]

NoMessage == [offerId |-> Undefined, result |-> FALSE]
----------------------------------------------------------------------------
(* The request *)

NoCalls ==
    [ledger |-> 0, identity |-> 0, content |-> 0, lookup |-> 0, index |-> FALSE]

Init ==
    /\ pc = "idle"
    /\ query = NoParam
    /\ offerId = Undefined
    /\ raw = NoRaw
    /\ receiverFid = 0
    /\ offer = Undefined
    /\ cursor = Null
    /\ reaction = Undefined
    /\ reactionCreateTimeMs = Undefined
    /\ message = NoMessage
    /\ response = NoResponse
    /\ calls = NoCalls
    /\ failed = "none"
    /\ indexResponse = NoIndexResponse
    /\ qualifying = {}
    /\ clockAt = <<>>
    /\ nowReads = <<>>
    /\ signLog = <<>>

scanVars == <<cursor, reaction, reactionCreateTimeMs, indexResponse,
              qualifying>>
fetchVars == <<raw, receiverFid, offer>>
decideVars == <<message, clockAt, nowReads, signLog>>

\* handler's catch: response(500, { error: 'Internal server error' })
InternalServerError ==
    /\ response' = Response(500, [error |-> "Internal server error"])
    /\ pc' = "done"

\* handler, up to the call of validate
Handler ==
    /\ pc = "idle"
    /\ \E q \in Queries :
          /\ query' = q
          /\ IF QueryFalsy(q)
             THEN /\ response' = Response(400, [error |-> "No offerId provided"])
                  /\ pc' = "done"
                  /\ UNCHANGED offerId
             ELSE /\ offerId' = JsNumber(q.chars)
                  /\ pc' = "offers"
                  /\ UNCHANGED response
    /\ UNCHANGED <<fetchVars, scanVars, decideVars, calls, failed>>

\* fetchOfferById's catch: the error is logged and undefined is returned
FetchFails(phase) ==
    /\ failed' = phase
    /\ offer' = Undefined
    /\ pc' = "validate"

\* fetchOfferById: await contract.offers(offerId)
ContractOffers ==
    /\ pc = "offers"
    /\ calls' = [calls EXCEPT !.ledger = @ + 1]
    /\ \/ FetchFails("ledger") /\ UNCHANGED raw
       \/ /\ IsUint256(offerId)
          /\ \E r \in RawOffers : raw' = r
          /\ pc' = "lookupUser"
          /\ UNCHANGED <<failed, offer>>
    /\ UNCHANGED <<query, offerId, receiverFid, scanVars, decideVars, response>>

\* fetchOfferById: await client.lookupUserByCustodyAddress(receiverAddress)
LookupUserByCustodyAddress ==
    /\ pc = "lookupUser"
    /\ calls' = [calls EXCEPT !.identity = @ + 1]
    /\ \/ FetchFails("identity") /\ UNCHANGED receiverFid
       \/ /\ \E f \in ReceiverFids : receiverFid' = f
          /\ pc' = "lookUpCast"
          /\ UNCHANGED <<failed, offer>>
    /\ UNCHANGED <<query, offerId, raw, scanVars, decideVars, response>>

\* fetchOfferById: await client.lookUpCastByHashOrWarpcastUrl(castUrl, ...) and the return
LookUpCastByHashOrWarpcastUrl ==
    /\ pc = "lookUpCast"
    /\ calls' = [calls EXCEPT !.content = @ + 1]
    /\ \/ FetchFails("content")
       \/ /\ \E h \in CastHashes : offer' = OfferObject(offerId, raw, receiverFid, h)
          /\ pc' = "validate"
          /\ UNCHANGED failed
    /\ UNCHANGED <<query, offerId, raw, receiverFid, scanVars, decideVars, response>>

\* validate: the test of offer.state on the value fetchOfferById returned
ValidateState ==
    /\ pc = "validate"
    /\ CASE StateCheck(offer) = "throw" -> InternalServerError
         [] StateCheck(offer) = "notAccepted" ->
                /\ response' = Response(200, UnsignedResult(offerId))
                /\ pc' = "done"
         [] OTHER -> pc' = "dispatch" /\ UNCHANGED response
    /\ UNCHANGED <<query, offerId, fetchVars, scanVars, decideVars, calls, failed>>

\* findReactionCreateTimeMs: REACTION_HANDLERS[reactionType] and its call
FindReactionCreateTimeMs ==
    /\ pc = "dispatch"
    /\ calls' = [calls EXCEPT !.lookup = @ + 1]
    /\ IF offer.type + 1 \in DOMAIN REACTION_HANDLERS
       THEN /\ pc' = REACTION_HANDLERS[offer.type + 1]
            /\ UNCHANGED <<failed, response>>
       ELSE /\ failed' = "dispatch"
            /\ InternalServerError
    /\ UNCHANGED <<query, offerId, fetchVars, scanVars, decideVars>>

\* the reaction handler returns `found`; findReactionCreateTimeMs converts it
LookupReturns(found, matches) ==
    /\ reaction' = found
    /\ reactionCreateTimeMs' = CreateTimeMs(found)
    /\ qualifying' = matches
    /\ pc' = "decide"
    /\ cursor' = Null
    /\ indexResponse' = NoIndexResponse

\* a reaction handler at its await: the page fetch returns a response, or the
\* try block throws and the catch returns null
FetchPage(h) ==
    /\ ~indexResponse.arrived
    /\ calls' = [calls EXCEPT !.index = TRUE]
    /\ \/ /\ failed' = "index"
          /\ LookupReturns(Null, {})
       \/ \* a page with a match: its cursor is not read
          /\ \E outcome \in OutcomesFor(h, offer) :
                /\ Truthy(outcome.found)
                /\ indexResponse' = IndexResponse(outcome, Null)
          /\ UNCHANGED <<failed, pc, cursor, reaction, reactionCreateTimeMs,
                         qualifying>>
       \/ \* a page with no match, and its response.next.cursor
          /\ \E outcome \in OutcomesFor(h, offer) :
                /\ ~Truthy(outcome.found)
                /\ \E next \in Cursors :
                      indexResponse' = IndexResponse(outcome, next)
          /\ UNCHANGED <<failed, pc, cursor, reaction, reactionCreateTimeMs,
                         qualifying>>

\* a reaction handler after its await: return the match, or take the cursor
\* of the page and break on an empty one, or go round the loop
ReadPage(h) ==
    /\ indexResponse.arrived
    /\ IF Truthy(indexResponse.found)
       THEN LookupReturns(indexResponse.found, indexResponse.matches)
       ELSE IF ScanContinues(indexResponse.next)
       THEN /\ cursor' = indexResponse.next
            /\ indexResponse' = NoIndexResponse
            /\ UNCHANGED <<pc, reaction, reactionCreateTimeMs, qualifying>>
       ELSE LookupReturns(Null, {})
    /\ UNCHANGED <<calls, failed>>

\* the while loop of the reaction handler `h`
ScanPage(h) ==
    /\ FetchPage(h) \/ ReadPage(h)
    /\ UNCHANGED <<query, offerId, fetchVars, decideVars, response>>

FindRecast == pc = "findRecast" /\ ScanPage("findRecast")

FindQuote == pc = "findQuote" /\ ScanPage("findQuote")

FindLike == pc = "findLike" /\ ScanPage("findLike")

\* validate, lines 49-60: the two tests, each with its own Date.now()
Decide ==
    /\ pc = "decide"
    /\ \E n1 \in ClockValues, n2 \in ClockValues :
          /\ n1 <= n2
          /\ clockAt' = <<n1, n2>>
          /\ nowReads' = ClockReads(reactionCreateTimeMs, offer, n1, n2)
          /\ CASE Verdict(reactionCreateTimeMs, offer, n1, n2) = "cancel" ->
                    /\ message' = [offerId |-> offerId, result |-> FALSE]
                    /\ pc' = "sign"
                    /\ UNCHANGED response
               [] Verdict(reactionCreateTimeMs, offer, n1, n2) = "complete" ->
                    /\ message' = [offerId |-> offerId, result |-> TRUE]
                    /\ pc' = "sign"
                    /\ UNCHANGED response
               [] OTHER ->
                    /\ response' = Response(200, UnsignedResult(offerId))
                    /\ pc' = "done"
                    /\ UNCHANGED message
    /\ UNCHANGED <<query, offerId, fetchVars, scanVars, calls, failed, signLog>>

\* generateSignature(message) and handler's response(200, ...)
GenerateSignature ==
    /\ pc = "sign"
    /\ signLog' = Append(signLog, DataHash(message))
    /\ response' = Response(200, SignedResult(message))
    /\ pc' = "done"
    /\ UNCHANGED <<query, offerId, fetchVars, scanVars, calls, failed,
                   message, clockAt, nowReads>>

Next ==
    \/ Handler
    \/ ContractOffers
    \/ LookupUserByCustodyAddress
    \/ LookUpCastByHashOrWarpcastUrl
    \/ ValidateState
    \/ FindReactionCreateTimeMs
    \/ FindRecast
    \/ FindQuote
    \/ FindLike
    \/ Decide
    \/ GenerateSignature

Spec == Init /\ [][Next]_vars

\* every awaited call returns and the event loop resumes the request
FairSpec == Spec /\ WF_vars(Next)

TypeOK ==
    /\ pc \in {"idle", "offers", "lookupUser", "lookUpCast", "validate",
               "dispatch", "findRecast", "findQuote", "findLike", "decide",
               "sign", "done"}
    /\ query \in Queries
    /\ failed \in {"none", "ledger", "identity", "content", "dispatch", "index"}
    /\ indexResponse.arrived \in BOOLEAN
    /\ indexResponse.next \in Cursors
    /\ cursor \in Cursors
----------------------------------------------------------------------------
(* Vocabulary of the properties *)

SignedShape(b) == DOMAIN b = {"offer_id", "result", "v", "r", "s"}
UnsignedShape(b) == DOMAIN b = {"offerId", "result"}

Answered(status) == pc = "done" /\ response.statusCode = status

ReturnsUnsigned == Answered(200) /\ response.body = UnsignedResult(offerId)

ReturnsSigned(result) ==
    /\ Answered(200)
    /\ SignedShape(response.body)
    /\ response.body.result = result

\* the request went through the decision of validate
Decided == pc = "done" /\ clockAt # <<>>

Deadline == offer.acceptTimeMs + DAY_IN_MS

\* the reaction handler returned an engagement
Found == Truthy(reaction)

NoOutboundCall ==
    /\ calls = NoCalls
    /\ signLog = <<>>

NoLookupNoSignature ==
    /\ calls.lookup = 0
    /\ ~calls.index
    /\ signLog = <<>>

ScanPcs == {"findRecast", "findQuote", "findLike"}

Scanning == pc \in ScanPcs

\* the index has answered the running scan with a match, or with an empty or
\* absent next-cursor
IndexStops ==
    /\ indexResponse.arrived
    /\ Truthy(indexResponse.found) \/ ~Truthy(indexResponse.next)

----------------------------------------------------------------------------
(* Properties *)

\* C1: every 200 response is unsigned {offerId, result: false}, or signed
\* {offer_id, result, v, r, s}; a signed response carries exactly the
\* (offerId, result) pair that generateSignature encoded, hashed and signed,
\* and its offer_id is the requested offerId.
C1_ThreeShapes ==
    Answered(200) =>
        LET b == response.body IN
        \/ /\ UnsignedShape(b)
           /\ b.result = FALSE
           /\ b.offerId = JsNumber(query.chars)
           /\ signLog = <<>>
        \/ /\ SignedShape(b)
           /\ b.result \in BOOLEAN
           /\ b.offer_id = JsNumber(query.chars)
           /\ signLog = <<DataHash([offerId |-> b.offer_id, result |-> b.result])>>
           /\ [v |-> b.v, r |-> b.r, s |-> b.s] = SignatureOf(signLog[1])

C1_Witness == ReturnsSigned(TRUE) /\ JsNumber(query.chars) = Num(1)

\* C2: for an ACCEPTED offer evaluated at one instant `now`, validate returns a
\* signed result:false if and only if no engagement was found and
\* now > acceptTimeMs + 86400000, or an engagement was found with a timestamp
\* t_e > acceptTimeMs + 86400000.
C2_CancelIff ==
    (/\ Decided
     /\ clockAt[1] = clockAt[2]
     /\ (Found => reactionCreateTimeMs.kind = "number"))
    => (ReturnsSigned(FALSE) <=>
            \/ ~Found /\ clockAt[1] > Deadline
            \/ Found /\ reactionCreateTimeMs.val > Deadline)

\* C3: for an ACCEPTED offer with an engagement found at a timestamp
\* 0 <= t_e <= acceptTimeMs + 86400000, evaluated at one instant `now`, validate
\* returns signed result:true when now > t_e + durationMs and unsigned
\* {offerId, result:false} when now <= t_e + durationMs.
C3_CompleteInTime ==
    (/\ Decided
     /\ clockAt[1] = clockAt[2]
     /\ Found
     /\ reactionCreateTimeMs.kind = "number"
     /\ reactionCreateTimeMs.val >= 0
     /\ reactionCreateTimeMs.val <= Deadline)
    => IF clockAt[1] > reactionCreateTimeMs.val + offer.durationMs
       THEN ReturnsSigned(TRUE)
       ELSE ReturnsUnsigned

\* C4: an offer whose state is not ACCEPTED is answered with unsigned
\* {offerId, result:false}, without an engagement lookup, a clock read or a
\* signature.
C4_NotAccepted ==
    (offer.kind = "object" /\ offer.state # 1) =>
        /\ pc \in {"validate", "done"}
        /\ NoLookupNoSignature
        /\ nowReads = <<>>
        /\ pc = "done" => ReturnsUnsigned

C4_Witness ==
    /\ pc = "done"
    /\ offer.kind = "object"
    /\ offer.state = 2
    /\ offer.type = 1
    /\ ReturnsUnsigned

\* C5: a request whose offerId is missing or does not parse to a positive
\* integer is answered with 400 (the missing one with "No offerId provided")
\* and makes no ledger read, engagement lookup or signature.
C5_InvalidOfferId ==
    (/\ pc = "done"
     /\ \/ ~query.present
        \/ JsNumber(query.chars).kind # "number"
        \/ JsNumber(query.chars).val <= 0)
    => /\ response.statusCode = 400
       /\ ~query.present => response.body = [error |-> "No offerId provided"]
       /\ NoOutboundCall

\* C6: a failure in findReactionCreateTimeMs or in the handler it dispatches
\* to is recovered: the lookup yields "not found" and the request is answered
\* with 200.
C6_LookupFailureRecovered ==
    (pc = "done" /\ failed \in {"dispatch", "index"}) =>
        /\ response.statusCode = 200
        /\ reaction = Null

\* C7: when the ledger read, the identity resolution or the content resolution
\* fails, no offer is evaluated, no lookup is started, nothing is signed, the
\* failed call is made once, and the request is answered with 500.
C7_FetchFailure ==
    (failed \in {"ledger", "identity", "content"}) =>
        /\ offer = Undefined
        /\ pc \in {"validate", "done"}
        /\ NoLookupNoSignature
        /\ nowReads = <<>>
        /\ calls.ledger = 1 /\ calls.identity <= 1 /\ calls.content <= 1
        /\ pc = "done" =>
              response = Response(500, [error |-> "Internal server error"])

C7_Witness ==
    /\ pc = "done"
    /\ failed = "content"
    /\ calls.content = 1
    /\ response.statusCode = 500

RECURSIVE MinOf(_)
MinOf(S) ==
    LET x == CHOOSE y \in S : TRUE IN
    IF S = {x} THEN x
    ELSE IF x < MinOf(S \ {x}) THEN x ELSE MinOf(S \ {x})

\* C8: when the fetched page holds several qualifying events, the locator
\* returns the timestamp of the earliest one.
C8_Earliest ==
    (/\ pc = "decide"
     /\ qualifying # {}
     /\ \A t \in qualifying : t.kind = "number")
    => reactionCreateTimeMs = Num(MinOf({t.val : t \in qualifying}))

\* C9 as stated: every engagement scan terminates, whatever the index answers.
C9_ScanTerminates == Scanning ~> ~Scanning

\* C9: an engagement scan terminates exactly when the index answers one of
\* its page fetches with a match, an error, or an empty or absent next-cursor.
\* Such an answer ends the scan before any further fetch; the scan ends on
\* no other answer, so it lasts as long as the index goes on answering with
\* pages that hold no match and a non-empty next-cursor.
C9_ScanTerminatesWhenIndexStops ==
    /\ (Scanning /\ IndexStops) ~> ~Scanning
    /\ [][(Scanning /\ IndexStops) => ~Scanning']_vars
    /\ [][(Scanning /\ ~Scanning') => (IndexStops \/ failed' = "index")]_vars

C9_Witness ==
    /\ Scanning
    /\ Truthy(cursor)
    /\ IndexStops
    /\ ~Truthy(indexResponse.found)

\* the transition function of the decision policy, for an ACCEPTED offer
Policy(o, te, now) ==
    IF \/ te.kind = "null" /\ now > o.acceptTimeMs + DAY_IN_MS
       \/ te.kind = "number" /\ te.val > o.acceptTimeMs + DAY_IN_MS
    THEN "CANCELLABLE"
    ELSE IF te.kind = "number" /\ now > te.val + o.durationMs
    THEN "COMPLETABLE"
    ELSE "PENDING"

Outcome ==
    IF ReturnsSigned(FALSE) THEN "CANCELLABLE"
    ELSE IF ReturnsSigned(TRUE) THEN "COMPLETABLE"
    ELSE IF ReturnsUnsigned THEN "PENDING"
    ELSE "none"

\* the instants between the first and the last clock read
Instants ==
    IF nowReads = <<>> THEN {clockAt[1], clockAt[2]}
    ELSE {nowReads[i] : i \in 1..Len(nowReads)}

\* C10: the clock is read only once the lookup has returned, and for an
\* engagement timestamp that is absent or positive the response is the
\* policy's outcome at one instant between the first and the last clock read.
C10_SingleInstant ==
    /\ nowReads # <<>> => pc \in {"sign", "done"}
    /\ (/\ Decided
        /\ \/ reactionCreateTimeMs.kind = "null"
           \/ reactionCreateTimeMs.kind = "number" /\ reactionCreateTimeMs.val > 0)
       => \E now \in Instants :
              Outcome = Policy(offer, reactionCreateTimeMs, now)

C10_Witness ==
    /\ Decided
    /\ clockAt[1] < clockAt[2]
    /\ nowReads = <<clockAt[2]>>
    /\ reactionCreateTimeMs.kind = "number"
    /\ ReturnsSigned(TRUE)
====
